---------------------------- MODULE Spec2Model ----------------------------
(***************************************************************************)
(* Model of the ISA atmosphere library, src/src/lib/isa-calculations.ts.   *)
(*                                                                         *)
(* Number representation.  Altitudes are whole metres.  Temperatures and   *)
(* lapse rates are integers in units of 1e-4 K and 1e-4 K/m, so that       *)
(* T = Tb + L * (h - hb) is computed exactly.  Base pressures are kept as  *)
(* the decimal literals of the table, <<mantissa, decimal exponent>>.      *)
(* exp, pow and sqrt are not interpreted: a value computed with them is    *)
(* the record of the function applied and of the arguments it was applied  *)
(* to, so two such values are equal when the code evaluates the same       *)
(* expression on the same arguments.                                       *)
(***************************************************************************)
EXTENDS Integers, Sequences, FiniteSets, TLC

VARIABLES
    LAYERS,      \* the layer table (a module-level array of objects)
    ISA_CONSTANTS, \* the physical constants (a module-level object)
    UNITS,       \* the conversion tables (a module-level object)
    thrown,      \* "none", or the kind of the error the last call threw
    op,          \* the library function called last, "none" at first
    arg,         \* the argument(s) the function was called with
    result,      \* <<>> or <<r>>: what the function returned
    pc,          \* generateProfile: "idle", "loop", "done" or "exhausted"
    startAltM,   \* generateProfile: parameters of the current call
    endAltM,
    stepM,
    alt,         \* generateProfile: the loop variable
    results,     \* generateProfile: the array being filled / returned
    invocations, \* calculateAtmosphere calls made by the current generateProfile
    altitudeInput, \* Calculator page: the text of the altitude field
    altitudeUnit,  \* Calculator page: the unit selected for the altitude
    copied,        \* Calculator page: the flag set by handleCopyResult
    emitted      \* Calculator page: what the last handler wrote to the
                 \* clipboard, downloaded and announced, in that order

\* the module-level tables
tables == <<LAYERS, ISA_CONSTANTS, UNITS>>

\* the state of the Calculator page
page == <<altitudeInput, altitudeUnit, copied, emitted>>

vars == <<LAYERS, ISA_CONSTANTS, UNITS, thrown, op, arg, result, pc, startAltM, endAltM, stepM, alt, results, invocations, altitudeInput, altitudeUnit, copied, emitted>>

\* the initial values given to useState by the Calculator page
InitialPage ==
    /\ altitudeInput = <<"1", "0", "0", "0", "0">>
    /\ altitudeUnit = "m"
    /\ copied = FALSE
    /\ emitted = <<>>

---------------------------------------------------------------------------
(* Bounds of the model *)

\* capacity of the results array: the engine cannot grow an array for ever
MaxArrayLen == 100

\* the longest profile whose samples are computed in every order
MaxConcurrentSamples == 6

\* how many entries of the layer table a caller may write through a result
MaxLayerWrites == 1

\* the base temperatures (1e-4 K) a caller writes into the layer of a result
WrittenTemperatures == {3000000}

\* altitudes given to single-point calls
Altitudes ==
    {-500, -1, 0, 1, 5000, 10999, 11000, 11001, 19999, 20000, 31999, 32000,
     46999, 47000, 50999, 51000, 70999, 71000, 85999, 86000, 86001, 200000}

\* values and unit identifiers given to convertAltitude and convertPressure;
\* "mi" and "bar" are in no table, "constructor" is a property every object
\* inherits
ConvertValues == {0, 1, 35000}
AltitudeUnitIds == {"m", "km", "ft", "mi", "constructor"}
PressureUnitIds == {"Pa", "hPa", "mbar", "atm", "psi", "bar", "constructor"}

\* the numbers given to the conversions when they are computed in binary64,
\* as decimal literals <<mantissa, decimal exponent>>: 0, 1, 3, 7, 35000,
\* -0.1 and 0.007
NumberValues == {<<0, 0>>, <<1, 0>>, <<3, 0>>, <<7, 0>>, <<35000, 0>>, <<-1, -1>>, <<7, -3>>}

\* the values (decimal literals) and the numbers of decimals given to
\* formatNumber
FormatValues ==
    {<<0, 0>>, <<5, -4>>, <<-5, -4>>, <<1, -3>>, <<9999, -7>>, <<15, 0>>, <<-565, -1>>,
     <<999999, 0>>, <<1, 6>>, <<-1, 6>>, <<12345678, -1>>}
FormatDecimals == {2, 4, 6}

\* altitudes of the Troposphere between whole metres, in units of 1/65 m:
\* 0, 1 m, and three altitudes around (2307 + 9/13) m, where the temperature
\* passes 273.15 K
GridAltitudes == {0, 65, 149995, 150000, 150005}

\* the texts typed into the altitude field of the Calculator page, character
\* by character: 10000, 86, 86.001, 86001, -5, 0, 300000, 8.6e1, 12abc,
\* " 20" with a leading blank, "." and the empty text
AltitudeTexts ==
    {<<"1", "0", "0", "0", "0">>, <<"8", "6">>, <<"8", "6", ".", "0", "0", "1">>,
     <<"8", "6", "0", "0", "1">>, <<"-", "5">>, <<"0">>,
     <<"3", "0", "0", "0", "0", "0">>, <<"8", ".", "6", "e", "1">>,
     <<"1", "2", "a", "b", "c">>, <<" ", "2", "0">>, <<".">>, <<>>}

\* the formats of the export buttons
ExportFormats == {"csv", "json"}

\* the instants new Date() can return when exportToJSON is called
Timestamps == {1, 2}

\* parameters given to generateProfile
Starts == {-6000, 0, 10000, 80000}
Ends   == {-3000, 0, 10000, 86000, 92000}
Steps  == {-1000, 0, 1000, 3000}

---------------------------------------------------------------------------
(* Constants and tables *)

\* g0 and R in units of 1e-5, gamma in 1e-1, T0 in 1e-4 K, P0 in Pa, rho0 in 1e-3
IsaConstants ==
    [g0 |-> 980665, R |-> 28705287, gamma |-> 14,
     T0 |-> 2881500, P0 |-> 101325, rho0 |-> 1225]

\* a table whose isothermal Tropopause carries a small non-zero lapse rate
LayerTable_tropopauseGradient == <<
    [name |-> "Troposphere",     baseAltitude |-> 0,     baseTemperature |-> 2881500, lapseRate |-> -65, basePressure |-> <<101325, 0>>],
    [name |-> "Tropopause",      baseAltitude |-> 11000, baseTemperature |-> 2166500, lapseRate |-> 1,   basePressure |-> <<226321, -1>>],
    [name |-> "Stratosphere I",  baseAltitude |-> 20000, baseTemperature |-> 2166500, lapseRate |-> 10,  basePressure |-> <<547489, -2>>],
    [name |-> "Stratosphere II", baseAltitude |-> 32000, baseTemperature |-> 2286500, lapseRate |-> 28,  basePressure |-> <<868019, -3>>],
    [name |-> "Stratopause",     baseAltitude |-> 47000, baseTemperature |-> 2706500, lapseRate |-> 0,   basePressure |-> <<110906, -3>>],
    [name |-> "Mesosphere I",    baseAltitude |-> 51000, baseTemperature |-> 2706500, lapseRate |-> -28, basePressure |-> <<669389, -4>>],
    [name |-> "Mesosphere II",   baseAltitude |-> 71000, baseTemperature |-> 2146500, lapseRate |-> -20, basePressure |-> <<395642, -5>>],
    [name |-> "Mesopause",       baseAltitude |-> 86000, baseTemperature |-> 1868700, lapseRate |-> 0,   basePressure |-> <<3734, -4>>] >>

LayerTable == <<
    [name |-> "Troposphere",     baseAltitude |-> 0,     baseTemperature |-> 2881500, lapseRate |-> -65, basePressure |-> <<101325, 0>>],
    [name |-> "Tropopause",      baseAltitude |-> 11000, baseTemperature |-> 2166500, lapseRate |-> 0,   basePressure |-> <<226321, -1>>],
    [name |-> "Stratosphere I",  baseAltitude |-> 20000, baseTemperature |-> 2166500, lapseRate |-> 10,  basePressure |-> <<547489, -2>>],
    [name |-> "Stratosphere II", baseAltitude |-> 32000, baseTemperature |-> 2286500, lapseRate |-> 28,  basePressure |-> <<868019, -3>>],
    [name |-> "Stratopause",     baseAltitude |-> 47000, baseTemperature |-> 2706500, lapseRate |-> 0,   basePressure |-> <<110906, -3>>],
    [name |-> "Mesosphere I",    baseAltitude |-> 51000, baseTemperature |-> 2706500, lapseRate |-> -28, basePressure |-> <<669389, -4>>],
    [name |-> "Mesosphere II",   baseAltitude |-> 71000, baseTemperature |-> 2146500, lapseRate |-> -20, basePressure |-> <<395642, -5>>],
    [name |-> "Mesopause",       baseAltitude |-> 86000, baseTemperature |-> 1868700, lapseRate |-> 0,   basePressure |-> <<3734, -4>>] >>

\* the tables with the digits of the foot transposed: 0.3084
UnitTables_footTypo ==
    [altitude |-> [m   |-> [factor |-> <<1, 0>>,    symbol |-> "m"],
                   km  |-> [factor |-> <<1000, 0>>, symbol |-> "km"],
                   ft  |-> [factor |-> <<3084, -4>>, symbol |-> "ft"]],
     pressure |-> [Pa   |-> [factor |-> <<1, 0>>,      symbol |-> "Pa"],
                   hPa  |-> [factor |-> <<100, 0>>,    symbol |-> "hPa"],
                   mbar |-> [factor |-> <<100, 0>>,    symbol |-> "mbar"],
                   atm  |-> [factor |-> <<101325, 0>>, symbol |-> "atm"],
                   psi  |-> [factor |-> <<689476, -2>>, symbol |-> "psi"]]]

\* UNITS.altitude and UNITS.pressure: the factor of each unit, a decimal
\* <<mantissa, decimal exponent>>
UnitTables ==
    [altitude |-> [m   |-> [factor |-> <<1, 0>>,    symbol |-> "m"],
                   km  |-> [factor |-> <<1000, 0>>, symbol |-> "km"],
                   ft  |-> [factor |-> <<3048, -4>>, symbol |-> "ft"]],
     pressure |-> [Pa   |-> [factor |-> <<1, 0>>,      symbol |-> "Pa"],
                   hPa  |-> [factor |-> <<100, 0>>,    symbol |-> "hPa"],
                   mbar |-> [factor |-> <<100, 0>>,    symbol |-> "mbar"],
                   atm  |-> [factor |-> <<101325, 0>>, symbol |-> "atm"],
                   psi  |-> [factor |-> <<689476, -2>>, symbol |-> "psi"]]]

\* the bounds of the clamp in calculateAtmosphere
MinAlt == 0
MaxAlt == 86000

\* 273.15 K in units of 1e-4 K
KelvinOffset == 2731500

---------------------------------------------------------------------------
(* The pure functions *)

Max(a, b) == IF a >= b THEN a ELSE b
Min(a, b) == IF a <= b THEN a ELSE b

\* 10 to the power n, n >= 0
RECURSIVE Pow10(_)
Pow10(n) == IF n = 0 THEN 1 ELSE 10 * Pow10(n - 1)

\* the scan with a strict comparison: a base altitude belongs to the layer below
RECURSIVE getLayerScan_strict(_, _)
getLayerScan_strict(altitudeM, i) ==
    IF i < 1 THEN 1
    ELSE IF altitudeM > LAYERS[i].baseAltitude THEN i
    ELSE getLayerScan_strict(altitudeM, i - 1)

\* the scan of getLayer from index i downwards; the result is the index of
\* the layer object (the code returns a reference to the table's entry)
RECURSIVE getLayerScan(_, _)
getLayerScan(altitudeM, i) ==
    IF i < 1 THEN 1
    ELSE IF altitudeM >= LAYERS[i].baseAltitude THEN i
    ELSE getLayerScan(altitudeM, i - 1)

\* the scan over seven layers: the last entry of the table is never reached
getLayer_sevenLayers(altitudeM) == getLayerScan(altitudeM, Len(LAYERS) - 1)

getLayer(altitudeM) == getLayerScan(altitudeM, Len(LAYERS))

\* the base temperature taken for degrees Celsius
calculateTemperature_celsius(altitudeM) ==
    LET layer  == LAYERS[getLayer(altitudeM)]
        deltaH == altitudeM - layer.baseAltitude
    IN  (layer.baseTemperature - KelvinOffset) + layer.lapseRate * deltaH

calculateTemperature(altitudeM) ==
    LET layer  == LAYERS[getLayer(altitudeM)]
        deltaH == altitudeM - layer.baseAltitude
    IN  layer.baseTemperature + layer.lapseRate * deltaH

\* the branch taken on |lapseRate| < 0.0015 K/m instead of lapseRate === 0
calculatePressure_epsilon(altitudeM) ==
    LET layer  == LAYERS[getLayer(altitudeM)]
        deltaH == altitudeM - layer.baseAltitude
        T      == calculateTemperature(altitudeM)
    IN  IF layer.lapseRate > -15 /\ layer.lapseRate < 15
        THEN [form |-> "exp", Pb |-> layer.basePressure,
              g0 |-> ISA_CONSTANTS.g0, deltaH |-> deltaH,
              R |-> ISA_CONSTANTS.R, T |-> T]
        ELSE [form |-> "pow", Pb |-> layer.basePressure,
              T |-> T, Tb |-> layer.baseTemperature,
              g0 |-> ISA_CONSTANTS.g0, L |-> layer.lapseRate,
              R |-> ISA_CONSTANTS.R]

calculatePressure(altitudeM) ==
    LET layer  == LAYERS[getLayer(altitudeM)]
        deltaH == altitudeM - layer.baseAltitude
        T      == calculateTemperature(altitudeM)
    IN  IF layer.lapseRate = 0
        THEN \* Pb * exp((-g0 * deltaH) / (R * T))
             [form |-> "exp", Pb |-> layer.basePressure,
              g0 |-> ISA_CONSTANTS.g0, deltaH |-> deltaH,
              R |-> ISA_CONSTANTS.R, T |-> T]
        ELSE \* Pb * pow(T / Tb, -g0 / (L * R))
             [form |-> "pow", Pb |-> layer.basePressure,
              T |-> T, Tb |-> layer.baseTemperature,
              g0 |-> ISA_CONSTANTS.g0, L |-> layer.lapseRate,
              R |-> ISA_CONSTANTS.R]

\* the density taken at the sea-level temperature instead of the call's own
calculateDensity_seaLevelT(pressure, temperature) ==
    [form |-> "div", pressure |-> pressure,
     R |-> ISA_CONSTANTS.R, temperature |-> ISA_CONSTANTS.T0]

\* pressure / (R * temperature)
calculateDensity(pressure, temperature) ==
    [form |-> "div", pressure |-> pressure,
     R |-> ISA_CONSTANTS.R, temperature |-> temperature]

\* the ratio of specific heats left out: sqrt(R * temperature)
calculateSpeedOfSound_noGamma(temperature) ==
    [form |-> "sqrt", gamma |-> 10,
     R |-> ISA_CONSTANTS.R, temperature |-> temperature]

\* sqrt(gamma * R * temperature)
calculateSpeedOfSound(temperature) ==
    [form |-> "sqrt", gamma |-> ISA_CONSTANTS.gamma,
     R |-> ISA_CONSTANTS.R, temperature |-> temperature]

\* mu0 * pow(temperature / T0, 1.5) * ((T0 + S) / (temperature + S));
\* mu0 in 1e-9 Pa s, T0 and S in 1e-4 K
calculateDynamicViscosity(temperature) ==
    [form |-> "sutherland", mu0 |-> 17894, T0 |-> 2881500, S |-> 1104000,
     temperature |-> temperature]

\* the clamp without its upper bound
clampAltitude_noUpper(altitudeM) == Max(MinAlt, altitudeM)

\* the clamp without its lower bound
clampAltitude_noLower(altitudeM) == Min(MaxAlt, altitudeM)

\* Math.max(0, Math.min(86000, altitudeM))
clampAltitude(altitudeM) == Max(MinAlt, Min(MaxAlt, altitudeM))

\* null is returned for an altitude outside [0, 86000] instead of clamping it
calculateAtmosphere_rejectOutOfRange(altitudeM) ==
    IF altitudeM < MinAlt \/ altitudeM > MaxAlt
    THEN [null |-> TRUE]
    ELSE LET layer       == getLayer(altitudeM)
             temperature == calculateTemperature(altitudeM)
             pressure    == calculatePressure(altitudeM)
             density     == calculateDensity(pressure, temperature)
             dynamicViscosity == calculateDynamicViscosity(temperature)
         IN  [altitude           |-> altitudeM,
              temperature        |-> temperature,
              temperatureCelsius |-> temperature - KelvinOffset,
              pressure           |-> pressure,
              density            |-> density,
              speedOfSound       |-> calculateSpeedOfSound(temperature),
              dynamicViscosity   |-> dynamicViscosity,
              kinematicViscosity |-> [form |-> "ratio", dynamicViscosity |-> dynamicViscosity,
                                      density |-> density],
              layer              |-> layer,
              layerName          |-> LAYERS[layer].name]

\* the kinematic viscosity taken with the density at the sea-level
\* temperature and the Celsius temperature with an offset of 273 K
calculateAtmosphere_seaLevelDensity(altitudeM) ==
    LET clampedAlt         == clampAltitude(altitudeM)
        layer              == getLayer(clampedAlt)
        temperature        == calculateTemperature(clampedAlt)
        pressure           == calculatePressure(clampedAlt)
        density            == calculateDensity(pressure, temperature)
        speedOfSound       == calculateSpeedOfSound(temperature)
        dynamicViscosity   == calculateDynamicViscosity(temperature)
        kinematicViscosity == [form |-> "ratio", dynamicViscosity |-> dynamicViscosity,
                               density |-> calculateDensity_seaLevelT(pressure, temperature)]
    IN  [altitude           |-> clampedAlt,
         temperature        |-> temperature,
         temperatureCelsius |-> temperature - 2730000,
         pressure           |-> pressure,
         density            |-> density,
         speedOfSound       |-> speedOfSound,
         dynamicViscosity   |-> dynamicViscosity,
         kinematicViscosity |-> kinematicViscosity,
         layer              |-> layer,
         layerName          |-> LAYERS[layer].name]

calculateAtmosphere(altitudeM) ==
    LET clampedAlt         == clampAltitude(altitudeM)
        layer              == getLayer(clampedAlt)
        temperature        == calculateTemperature(clampedAlt)
        pressure           == calculatePressure(clampedAlt)
        density            == calculateDensity(pressure, temperature)
        speedOfSound       == calculateSpeedOfSound(temperature)
        dynamicViscosity   == calculateDynamicViscosity(temperature)
        kinematicViscosity == [form |-> "ratio", dynamicViscosity |-> dynamicViscosity,
                               density |-> density]
    IN  [altitude           |-> clampedAlt,
         temperature        |-> temperature,
         temperatureCelsius |-> temperature - KelvinOffset,
         pressure           |-> pressure,
         density            |-> density,
         speedOfSound       |-> speedOfSound,
         dynamicViscosity   |-> dynamicViscosity,
         kinematicViscosity |-> kinematicViscosity,
         layer              |-> layer,
         layerName          |-> LAYERS[layer].name]

\* calculateAtmosphere at the altitude n / 65 m, for an altitude inside the
\* Troposphere (lapse rate -0.0065 K/m): there Tb + L * deltaH is a whole
\* number of 1e-4 K, and the pressure is the gradient form at that
\* temperature.  The altitude field is the fraction <<n, 65>>.
calculateAtmosphereOnGrid(n) ==
    LET layer              == 1
        temperature        == LAYERS[layer].baseTemperature
                              + (LAYERS[layer].lapseRate * (n - 65 * LAYERS[layer].baseAltitude)) \div 65
        pressure           == [form |-> "pow", Pb |-> LAYERS[layer].basePressure,
                               T |-> temperature, Tb |-> LAYERS[layer].baseTemperature,
                               g0 |-> ISA_CONSTANTS.g0, L |-> LAYERS[layer].lapseRate,
                               R |-> ISA_CONSTANTS.R]
        density            == calculateDensity(pressure, temperature)
        speedOfSound       == calculateSpeedOfSound(temperature)
        dynamicViscosity   == calculateDynamicViscosity(temperature)
        kinematicViscosity == [form |-> "ratio", dynamicViscosity |-> dynamicViscosity,
                               density |-> density]
    IN  [altitude           |-> <<n, 65>>,
         temperature        |-> temperature,
         temperatureCelsius |-> temperature - KelvinOffset,
         pressure           |-> pressure,
         density            |-> density,
         speedOfSound       |-> speedOfSound,
         dynamicViscosity   |-> dynamicViscosity,
         kinematicViscosity |-> kinematicViscosity,
         layer              |-> layer,
         layerName          |-> LAYERS[layer].name]

\* the property names an object literal inherits from Object.prototype:
\* table[u] is then a function or an object, and its .factor is undefined
InheritedKeys == {"constructor", "toString", "valueOf", "hasOwnProperty"}

\* table[from].factor and table[to].factor are read without a check: reading
\* .factor of undefined throws a TypeError
convertThrows(table, from, to) ==
    IF from \in DOMAIN table \cup InheritedKeys /\ to \in DOMAIN table \cup InheritedKeys
    THEN "none"
    ELSE "TypeError"

\* value * table[from].factor / table[to].factor; arithmetic on an undefined
\* factor gives NaN
convert(table, value, from, to) ==
    IF from \in DOMAIN table /\ to \in DOMAIN table
    THEN [form |-> "div",
          num  |-> [form |-> "mul", value |-> value, factor |-> table[from].factor],
          den  |-> table[to].factor]
    ELSE [form |-> "NaN"]

convertAltitude(value, from, to) == convert(UNITS.altitude, value, from, to)

convertPressure(value, from, to) == convert(UNITS.pressure, value, from, to)

---------------------------------------------------------------------------
(* The Number type of the language: IEEE 754 binary64, round to nearest,   *)
(* ties to even.  A finite number is [sign, mant, exp], its value          *)
(* sign * mant * 2^exp with mant a 53-bit natural number (or 0, with       *)
(* exp 0).  Natural numbers of any size are sequences of 15-bit limbs,     *)
(* lowest limb first, without leading zero limbs.  Overflow to Infinity    *)
(* and subnormal numbers are not represented: the exponent is unbounded.   *)
(*                                                                         *)
(* An operator takes the value of each argument once:                      *)
(* CHOOSE r \in {e : x \in {a}} : TRUE is e with x the value of a.         *)

\* the bits of a limb, the base of the limbs and the powers of 2 up to it
LimbBits == 15
LimbBase == 32768
PowersOfTwo ==
    <<1, 2, 4, 8, 16, 32, 64, 128, 256, 512, 1024, 2048, 4096, 8192, 16384, 32768>>

\* 2 to the power n, 0 <= n <= LimbBits
Pow2(n) == PowersOfTwo[n + 1]

\* the bits of the significand of a binary64 number
Precision == 53

RECURSIVE Limbs(_)
Limbs(n) == IF n = 0 THEN <<>> ELSE <<n % LimbBase>> \o Limbs(n \div LimbBase)

\* a without its leading zero limbs
Trim(a) ==
    CHOOSE r \in {SubSeq(x, 1, CHOOSE k \in 0..Len(x) :
                                   /\ k = 0 \/ x[k] # 0
                                   /\ \A j \in (k + 1)..Len(x) : x[j] = 0)
                  : x \in {a}} : TRUE

Limb(a, i) == IF i <= Len(a) THEN a[i] ELSE 0

RECURSIVE AddFrom(_, _, _, _)
AddFrom(a, b, i, carry) ==
    IF i > Len(a) /\ i > Len(b) THEN (IF carry = 0 THEN <<>> ELSE <<carry>>)
    ELSE CHOOSE r \in {<<s % LimbBase>> \o AddFrom(a, b, n, s \div LimbBase)
                       : s \in {Limb(a, i) + Limb(b, i) + carry}, n \in {i + 1}} : TRUE

NatAdd(a, b) == CHOOSE r \in {AddFrom(x, y, 1, 0) : x \in {a}, y \in {b}} : TRUE

RECURSIVE SubFrom(_, _, _, _)
SubFrom(a, b, i, borrow) ==
    IF i > Len(a) THEN <<>>
    ELSE CHOOSE r \in {<<(d + LimbBase) % LimbBase>>
                           \o SubFrom(a, b, n, IF d < 0 THEN 1 ELSE 0)
                       : d \in {Limb(a, i) - Limb(b, i) - borrow}, n \in {i + 1}} : TRUE

\* a - b for a >= b
NatSub(a, b) == CHOOSE r \in {Trim(SubFrom(x, y, 1, 0)) : x \in {a}, y \in {b}} : TRUE

NatLess(a, b) ==
    \E x \in {a}, y \in {b} :
        \/ Len(x) < Len(y)
        \/ /\ Len(x) = Len(y)
           /\ \E i \in 1..Len(x) :
                  /\ x[i] < y[i]
                  /\ \A j \in (i + 1)..Len(x) : x[j] = y[j]

RECURSIVE MulSmallFrom(_, _, _, _)
MulSmallFrom(a, d, i, carry) ==
    IF i > Len(a) THEN (IF carry = 0 THEN <<>> ELSE <<carry>>)
    ELSE CHOOSE r \in {<<s % LimbBase>> \o MulSmallFrom(a, d, n, s \div LimbBase)
                       : s \in {a[i] * d + carry}, n \in {i + 1}} : TRUE

\* a * d for one limb d
NatMulSmall(a, d) ==
    CHOOSE r \in {IF e = 0 THEN <<>> ELSE MulSmallFrom(x, e, 1, 0)
                  : x \in {a}, e \in {d}} : TRUE

\* a * LimbBase^k
ShiftLimbs(a, k) ==
    CHOOSE r \in {IF x = <<>> THEN <<>> ELSE [i \in 1..k |-> 0] \o x : x \in {a}} : TRUE

RECURSIVE MulFrom(_, _, _)
MulFrom(a, b, i) ==
    IF i > Len(b) THEN <<>>
    ELSE CHOOSE r \in {NatAdd(NatMulSmall(a, b[i]), ShiftLimbs(MulFrom(a, b, n), 1))
                       : n \in {i + 1}} : TRUE

NatMul(a, b) == CHOOSE r \in {MulFrom(x, y, 1) : x \in {a}, y \in {b}} : TRUE

\* a * 2^s
ShiftBits(a, s) ==
    CHOOSE r \in {ShiftLimbs(NatMulSmall(a, Pow2(t % LimbBits)), t \div LimbBits)
                  : t \in {s}} : TRUE

BitLength(a) ==
    CHOOSE r \in {IF x = <<>> THEN 0
                  ELSE LimbBits * (Len(x) - 1)
                       + (CHOOSE k \in 1..LimbBits :
                              Pow2(k - 1) <= x[Len(x)] /\ x[Len(x)] < Pow2(k))
                  : x \in {a}} : TRUE

\* the greatest limb d with d * q <= r, settled bit by bit from bit k down
RECURSIVE QuotientDigit(_, _, _, _)
QuotientDigit(r, q, d, k) ==
    IF k < 0 THEN d
    ELSE CHOOSE out \in {IF NatLess(r, NatMulSmall(q, e))
                         THEN QuotientDigit(r, q, d, j)
                         ELSE QuotientDigit(r, q, e, j)
                         : e \in {d + Pow2(k)}, j \in {k - 1}} : TRUE

\* long division, from the highest limb of p down: DivFrom takes limb i of p
\* into the remainder, DivStep subtracts the quotient digit
RECURSIVE DivFrom(_, _, _, _, _)
RECURSIVE DivStep(_, _, _, _, _)
DivStep(p, q, n, r, quot) ==
    CHOOSE out \in {DivFrom(p, q, n, NatSub(r, NatMulSmall(q, d)), <<d>> \o quot)
                    : d \in {QuotientDigit(r, q, 0, LimbBits - 1)}} : TRUE

DivFrom(p, q, i, rem, quot) ==
    IF i = 0 THEN [quot |-> Trim(quot), rem |-> rem]
    ELSE CHOOSE out \in {DivStep(p, q, n, r, quot)
                         : r \in {Trim(<<p[i]>> \o rem)}, n \in {i - 1}} : TRUE

NatDivMod(p, q) ==
    CHOOSE r \in {DivFrom(x, y, Len(x), <<>>, <<>>) : x \in {p}, y \in {q}} : TRUE

\* quotient and remainder of p * 2^s by q
ScaledDivMod(p, q, s) ==
    NatDivMod(ShiftBits(p, IF s > 0 THEN s ELSE 0), ShiftBits(q, IF s < 0 THEN 0 - s ELSE 0))

\* the quotient d.quot of p * 2^s by q, of 53 bits, rounded to nearest and
\* ties to even on the remainder d.rem: <<mantissa, exponent>>
Nearest(q, s, d) ==
    CHOOSE r \in
        {CHOOSE o \in {IF BitLength(m) > Precision
                       THEN <<NatDivMod(m, <<2>>).quot, 1 - s>>
                       ELSE <<m, 0 - s>>
                       : m \in {IF NatLess(den, twice) \/ (twice = den /\ e.quot[1] % 2 = 1)
                                THEN NatAdd(e.quot, <<1>>)
                                ELSE e.quot}} : TRUE
         : e \in {d}, den \in {ShiftBits(q, IF s < 0 THEN 0 - s ELSE 0)},
           twice \in {NatAdd(d.rem, d.rem)}} : TRUE

\* p / q rounded, when the quotient of p * 2^s by q has 53 or 54 bits
RoundAt(p, q, s) ==
    CHOOSE r \in {IF BitLength(d.quot) > Precision
                  THEN Nearest(q, t - 1, ScaledDivMod(p, q, t - 1))
                  ELSE Nearest(q, t, d)
                  : d \in {ScaledDivMod(p, q, s)}, t \in {s}} : TRUE

\* p / q (p, q > 0) rounded to 53 significant bits: <<mantissa, exponent>>
RoundRatio(p, q) ==
    CHOOSE r \in {RoundAt(x, y, Precision + BitLength(y) - BitLength(x))
                  : x \in {p}, y \in {q}} : TRUE

Zero == [sign |-> 1, mant |-> <<>>, exp |-> 0]

\* the Number a decimal literal <<mantissa, decimal exponent>> denotes
Number(d) ==
    IF d[1] = 0 THEN Zero
    ELSE CHOOSE x \in {[sign |-> IF d[1] < 0 THEN -1 ELSE 1, mant |-> r[1], exp |-> r[2]]
                       : r \in {IF d[2] >= 0
                                THEN RoundRatio(Limbs((IF d[1] < 0 THEN 0 - d[1] ELSE d[1])
                                                      * Pow10(d[2])), <<1>>)
                                ELSE RoundRatio(Limbs(IF d[1] < 0 THEN 0 - d[1] ELSE d[1]),
                                                Limbs(Pow10(0 - d[2])))}} : TRUE

\* a * b
Times(a, b) ==
    CHOOSE p \in
        {IF x.mant = <<>> \/ y.mant = <<>> THEN Zero
         ELSE CHOOSE o \in {[sign |-> x.sign * y.sign, mant |-> r[1],
                             exp |-> r[2] + x.exp + y.exp]
                            : r \in {RoundRatio(NatMul(x.mant, y.mant), <<1>>)}} : TRUE
         : x \in {a}, y \in {b}} : TRUE

\* a / b, b not 0
Over(a, b) ==
    CHOOSE p \in
        {IF x.mant = <<>> THEN Zero
         ELSE CHOOSE o \in {[sign |-> x.sign * y.sign, mant |-> r[1],
                             exp |-> r[2] + x.exp - y.exp]
                            : r \in {RoundRatio(x.mant, y.mant)}} : TRUE
         : x \in {a}, y \in {b}} : TRUE

\* the conversion that multiplies by the factor of the target unit as well
convertNumber_timesTo(table, value, from, to) ==
    Times(Times(value, Number(table[from].factor)), Number(table[to].factor))

\* value * table[from].factor / table[to].factor as the engine computes it,
\* for two units of the table
convertNumber(table, value, from, to) ==
    Over(Times(value, Number(table[from].factor)), Number(table[to].factor))

---------------------------------------------------------------------------
(* The exports *)

\* Number.prototype.toFixed, Number.prototype.toExponential and the string
\* conversions made by Array.prototype.join: a field of the text is the
\* record of the conversion and of the value converted
toFixed(value, digits) == [fmt |-> "toFixed", digits |-> digits, value |-> value]
toExponential(value, digits) == [fmt |-> "toExponential", digits |-> digits, value |-> value]
numberToString(value) == [fmt |-> "String", digits |-> 0, value |-> value]
text(string) == [fmt |-> "text", digits |-> 0, value |-> string]

\* Math.abs(value) >= 10^k for a decimal <<mantissa, decimal exponent>>
MagnitudeAtLeast(value, k) ==
    LET m == IF value[1] < 0 THEN 0 - value[1] ELSE value[1]
        d == k - value[2]
    IN  IF d <= 0 THEN m # 0
        ELSE IF d > 9 THEN FALSE
        ELSE m >= Pow10(d)

\* formatNumber(value, decimals)
formatNumber(value, decimals) ==
    IF ~MagnitudeAtLeast(value, -3) \/ MagnitudeAtLeast(value, 6)
    THEN toExponential(value, decimals)
    ELSE toFixed(value, decimals)

\* the header row of exportToCSV (the degree sign, the middle dot and the
\* superscripts of the source are written in ASCII)
CSVHeaders ==
    <<text("Altitude (m)"), text("Temperature (K)"), text("Temperature (degC)"),
      text("Pressure (Pa)"), text("Density (kg/m3)"), text("Speed of Sound (m/s)"),
      text("Dynamic Viscosity (Pa.s)"), text("Kinematic Viscosity (m2/s)"),
      text("Layer")>>

\* the row of one result
csvRow(r) ==
    <<numberToString(r.altitude),
      toFixed(r.temperature, 4),
      toFixed(r.temperatureCelsius, 4),
      toFixed(r.pressure, 4),
      toExponential(r.density, 6),
      toFixed(r.speedOfSound, 4),
      toExponential(r.dynamicViscosity, 6),
      toExponential(r.kinematicViscosity, 6),
      text(r.layerName)>>

\* the rows written from the last result to the first
exportToCSV_newestFirst(rs) ==
    <<CSVHeaders>> \o [k \in 1..Len(rs) |-> csvRow(rs[Len(rs) + 1 - k])]

\* exportToCSV: the lines of the text, each line the fields that are joined
\* with ","; the lines are joined with "\n"
exportToCSV(rs) == <<CSVHeaders>> \o [k \in 1..Len(rs) |-> csvRow(rs[k])]

\* the record of one result in exportToJSON
jsonRecord(r) ==
    [altitude_m              |-> r.altitude,
     temperature_K           |-> r.temperature,
     temperature_C           |-> r.temperatureCelsius,
     pressure_Pa             |-> r.pressure,
     density_kgm3            |-> r.density,
     speed_of_sound_ms       |-> r.speedOfSound,
     dynamic_viscosity_Pas   |-> r.dynamicViscosity,
     kinematic_viscosity_m2s |-> r.kinematicViscosity,
     layer                   |-> r.layerName]

\* exportToJSON: the document that is stringified; now is what new Date()
\* returns
exportToJSON(rs, now) ==
    [metadata |-> [model       |-> "ISA (ISO 2533:1975)",
                   generatedAt |-> now,
                   constants   |-> ISA_CONSTANTS],
     data     |-> [k \in 1..Len(rs) |-> jsonRecord(rs[k])]]

---------------------------------------------------------------------------
(* The Calculator page *)

DigitChars == <<"0", "1", "2", "3", "4", "5", "6", "7", "8", "9">>

IsDigit(c) == \E d \in DOMAIN DigitChars : DigitChars[d] = c

DigitValue(c) == (CHOOSE d \in DOMAIN DigitChars : DigitChars[d] = c) - 1

\* the last position of the longest run of digits of s that starts at
\* position i <= Len(s) + 1; i - 1 when s has no digit there
RunEnd(s, i) ==
    CHOOSE j \in (i - 1)..Len(s) :
        /\ \A k \in i..j : IsDigit(s[k])
        /\ j = Len(s) \/ ~IsDigit(s[j + 1])

\* the number the digits s[i..j] denote after the digits read so far
RECURSIVE DigitsValue(_, _, _, _)
DigitsValue(s, i, j, acc) ==
    IF i > j THEN acc ELSE DigitsValue(s, i + 1, j, 10 * acc + DigitValue(s[i]))

\* parseFloat(s): leading blanks are skipped, then the longest prefix that
\* is a decimal literal (sign, digits, point, digits, exponent) is converted
\* to the nearest Number; NaN when there is no such prefix.  The literal
\* Infinity is not read, and -0 is read as 0.
parseFloat(s) ==
    LET blanks     == CHOOSE b \in 0..Len(s) :
                          /\ \A k \in 1..b : s[k] = " "
                          /\ b = Len(s) \/ s[b + 1] # " "
        signed     == blanks < Len(s) /\ s[blanks + 1] \in {"-", "+"}
        sign       == IF signed /\ s[blanks + 1] = "-" THEN -1 ELSE 1
        first      == blanks + (IF signed THEN 2 ELSE 1)
        intEnd     == RunEnd(s, first)
        hasPoint   == intEnd < Len(s) /\ s[intEnd + 1] = "."
        mantEnd    == IF hasPoint THEN RunEnd(s, intEnd + 2) ELSE intEnd
        intDigits  == intEnd - first + 1
        fracDigits == IF hasPoint THEN mantEnd - (intEnd + 1) ELSE 0
        mantissa   == DigitsValue(s, intEnd + 2, mantEnd, DigitsValue(s, first, intEnd, 0))
        expMark    == mantEnd < Len(s) /\ s[mantEnd + 1] \in {"e", "E"}
        expSigned  == expMark /\ mantEnd + 1 < Len(s) /\ s[mantEnd + 2] \in {"-", "+"}
        expSign    == IF expSigned /\ s[mantEnd + 2] = "-" THEN -1 ELSE 1
        expFirst   == mantEnd + (IF expSigned THEN 3 ELSE 2)
        expEnd     == IF expMark THEN RunEnd(s, Min(expFirst, Len(s) + 1)) ELSE 0
        exponent   == IF expMark /\ expEnd >= expFirst
                      THEN expSign * DigitsValue(s, expFirst, expEnd, 0)
                      ELSE 0
    IN  IF intDigits + fracDigits = 0
        THEN [nan |-> TRUE, value |-> Zero]
        ELSE [nan |-> FALSE, value |-> Number(<<sign * mantissa, exponent - fracDigits>>)]

\* |a| < |b|
MagnitudeLess(a, b) ==
    \E x \in {a}, y \in {b} :
        IF y.mant = <<>> THEN FALSE
        ELSE IF x.mant = <<>> THEN TRUE
        ELSE \E e \in {Min(x.exp, y.exp)} :
                 NatLess(ShiftBits(x.mant, x.exp - e), ShiftBits(y.mant, y.exp - e))

\* a < b
NumberLess(a, b) ==
    IF a.sign = b.sign
    THEN (IF a.sign = 1 THEN MagnitudeLess(a, b) ELSE MagnitudeLess(b, a))
    ELSE a.sign = -1

\* the natural number the limbs a denote
RECURSIVE LimbsValue(_)
LimbsValue(a) == IF a = <<>> THEN 0 ELSE a[1] + LimbBase * LimbsValue(Tail(a))

\* the Number x as metres: whether it is a whole number, and x truncated
\* to one
Truncated(x) ==
    CHOOSE r \in
        {IF y.mant = <<>> THEN [whole |-> TRUE, metres |-> 0]
         ELSE IF y.exp >= 0
         THEN [whole |-> TRUE, metres |-> y.sign * LimbsValue(ShiftBits(y.mant, y.exp))]
         ELSE CHOOSE o \in {[whole |-> d.rem = <<>>, metres |-> y.sign * LimbsValue(d.quot)]
                             : d \in {NatDivMod(y.mant, ShiftBits(<<1>>, 0 - y.exp))}} : TRUE
         : y \in {x}} : TRUE

\* lines 38-42 of the page: the altitude field parsed and converted to
\* metres, and the two tests made on it
altitudeM(altitudeText, unit) ==
    CHOOSE r \in
        {IF v.nan THEN [nan |-> TRUE, inRange |-> FALSE, whole |-> FALSE, metres |-> 0]
         ELSE CHOOSE o \in
                  {CHOOSE w \in
                       {[nan     |-> FALSE,
                         inRange |-> ~(NumberLess(m, Zero)
                                       \/ NumberLess(Number(<<MaxAlt, 0>>), m)),
                         whole   |-> t.whole,
                         metres  |-> t.metres]
                        : t \in {Truncated(m)}} : TRUE
                   : m \in {convertNumber(UNITS.altitude, v.value, unit, "m")}} : TRUE
         : v \in {parseFloat(altitudeText)}} : TRUE

\* a page that hands every number to calculateAtmosphere
resultFor_clamped(a) ==
    IF a.nan THEN <<>> ELSE <<calculateAtmosphere(a.metres)>>

\* the value of the result memo, <<>> for null, for an altitude that is a
\* whole number of metres when it is in range
resultFor(a) ==
    IF a.nan THEN <<>>
    ELSE IF ~a.inRange THEN <<>>
    ELSE <<calculateAtmosphere(a.metres)>>

\* toast({ title })
toast(title) == [effect |-> "toast", name |-> <<title>>, data |-> <<>>]

\* the text handleCopyResult writes to the clipboard, line by line
copyText(r) ==
    <<<<numberToString(r.altitude)>>,
      <<toFixed(r.temperature, 4), toFixed(r.temperatureCelsius, 2)>>,
      <<toFixed(r.pressure, 4)>>,
      <<toExponential(r.density, 6)>>,
      <<toFixed(r.speedOfSound, 4)>>,
      <<text(r.layerName)>>>>

---------------------------------------------------------------------------
(* The state machine *)

Init ==
    /\ LAYERS = LayerTable
    /\ ISA_CONSTANTS = IsaConstants
    /\ UNITS = UnitTables
    /\ thrown = "none"
    /\ op = "none"
    /\ arg = 0
    /\ result = <<>>
    /\ pc = "idle"
    /\ startAltM = 0
    /\ endAltM = 0
    /\ stepM = 0
    /\ alt = 0
    /\ results = <<>>
    /\ invocations = 0
    /\ InitialPage

\* the caller is between two calls (the library is synchronous)
CallerReady == pc \in {"idle", "done"}

\* the state keeps the last call only: a single-altitude call leaves no
\* profile call behind
NoProfile ==
    /\ pc' = "idle"
    /\ startAltM' = 0
    /\ endAltM' = 0
    /\ stepM' = 0
    /\ alt' = 0
    /\ results' = <<>>
    /\ invocations' = 0

\* a caller evaluates getLayer(h)
GetLayer(h) ==
    /\ CallerReady
    /\ op' = "getLayer"
    /\ arg' = h
    /\ result' = <<getLayer(h)>>
    /\ thrown' = "none"
    /\ NoProfile
    /\ UNCHANGED <<tables, page>>

\* a caller evaluates calculateTemperature(h)
CalculateTemperature(h) ==
    /\ CallerReady
    /\ op' = "calculateTemperature"
    /\ arg' = h
    /\ result' = <<calculateTemperature(h)>>
    /\ thrown' = "none"
    /\ NoProfile
    /\ UNCHANGED <<tables, page>>

\* a caller evaluates calculatePressure(h)
CalculatePressure(h) ==
    /\ CallerReady
    /\ op' = "calculatePressure"
    /\ arg' = h
    /\ result' = <<calculatePressure(h)>>
    /\ thrown' = "none"
    /\ NoProfile
    /\ UNCHANGED <<tables, page>>

\* a caller evaluates calculateAtmosphere(h)
CalculateAtmosphere(h) ==
    /\ CallerReady
    /\ op' = "calculateAtmosphere"
    /\ arg' = h
    /\ result' = <<calculateAtmosphere(h)>>
    /\ thrown' = "none"
    /\ NoProfile
    /\ UNCHANGED <<tables, page>>

\* a caller evaluates convertAltitude(v, from, to)
ConvertAltitude(v, from, to) ==
    /\ CallerReady
    /\ op' = "convertAltitude"
    /\ arg' = <<v, from, to>>
    /\ thrown' = convertThrows(UNITS.altitude, from, to)
    /\ result' = IF thrown' = "none" THEN <<convertAltitude(v, from, to)>> ELSE <<>>
    /\ NoProfile
    /\ UNCHANGED <<tables, page>>

\* a caller evaluates convertPressure(v, from, to)
ConvertPressure(v, from, to) ==
    /\ CallerReady
    /\ op' = "convertPressure"
    /\ arg' = <<v, from, to>>
    /\ thrown' = convertThrows(UNITS.pressure, from, to)
    /\ result' = IF thrown' = "none" THEN <<convertPressure(v, from, to)>> ELSE <<>>
    /\ NoProfile
    /\ UNCHANGED <<tables, page>>

\* a caller exports the profile it has just generated as CSV
ExportToCSV ==
    /\ pc = "done"
    /\ op' = "exportToCSV"
    /\ arg' = 0
    /\ thrown' = "none"
    /\ result' = <<exportToCSV(results)>>
    /\ UNCHANGED <<page, tables, pc, startAltM, endAltM, stepM, alt, results, invocations>>

\* exportToJSON writes a rounded gas constant back into ISA_CONSTANTS
ExportToJSON_roundsConstants(now) ==
    /\ pc = "done"
    /\ op' = "exportToJSON"
    /\ arg' = 0
    /\ thrown' = "none"
    /\ ISA_CONSTANTS' = [ISA_CONSTANTS EXCEPT !.R = 28705000]
    /\ result' = <<exportToJSON(results, now)>>
    /\ UNCHANGED <<page, LAYERS, UNITS, pc, startAltM, endAltM, stepM, alt, results, invocations>>

\* a caller exports the profile it has just generated as JSON, at instant now
ExportToJSON(now) ==
    /\ pc = "done"
    /\ op' = "exportToJSON"
    /\ arg' = 0
    /\ thrown' = "none"
    /\ result' = <<exportToJSON(results, now)>>
    /\ UNCHANGED <<page, tables, pc, startAltM, endAltM, stepM, alt, results, invocations>>

\* the loop stops before the sample at endAltM
loopCondition_exclusive(a, e) == a < e

\* the body runs once before the condition is first tested
loopCondition_bodyFirst(a, e) == a <= e \/ a = startAltM

\* the loop clamps endAltM into the modelled range
loopCondition_clampedEnd(a, e) == a <= Min(e, MaxAlt)

\* the condition of the for loop of generateProfile
loopCondition(a, e) == a <= e

\* a loop that takes the next altitude from the clamped altitude of the
\* sample it has just pushed
RECURSIVE generateProfileFrom_fromLastSample(_, _, _, _)
generateProfileFrom_fromLastSample(a, e, st, acc) ==
    IF loopCondition(a, e) /\ Len(acc) < MaxArrayLen
    THEN generateProfileFrom_fromLastSample(calculateAtmosphere(a).altitude + st, e, st,
                                            Append(acc, calculateAtmosphere(a)))
    ELSE acc

\* generateProfile as a function of its arguments: the loop run from alt = a
\* with the samples acc pushed so far, for as long as the array can grow
RECURSIVE generateProfileFrom(_, _, _, _)
generateProfileFrom(a, e, st, acc) ==
    IF loopCondition(a, e) /\ Len(acc) < MaxArrayLen
    THEN generateProfileFrom(a + st, e, st, Append(acc, calculateAtmosphere(a)))
    ELSE acc

generateProfile(s, e, st) == generateProfileFrom(s, e, st, <<>>)

\* generateProfile is entered: results = [], alt = startAltM
GenerateProfile(s, e, st) ==
    /\ CallerReady
    /\ startAltM' = s
    /\ endAltM' = e
    /\ stepM' = st
    /\ alt' = s
    /\ results' = <<>>
    /\ invocations' = 0
    /\ pc' = "loop"
    /\ op' = "generateProfile"
    /\ arg' = 0
    /\ result' = <<>>
    /\ thrown' = "none"
    /\ UNCHANGED <<tables, page>>

\* one iteration that puts the new sample in front of the array
LoopBody_prepend ==
    /\ pc = "loop"
    /\ loopCondition(alt, endAltM)
    /\ Len(results) < MaxArrayLen
    /\ results' = <<calculateAtmosphere(alt)>> \o results
    /\ invocations' = invocations + 1
    /\ alt' = alt + stepM
    /\ UNCHANGED <<page, tables, thrown, op, arg, result, pc, startAltM, endAltM, stepM>>

\* one iteration: the condition holds, push calculateAtmosphere(alt), alt += stepM
LoopBody ==
    /\ pc = "loop"
    /\ loopCondition(alt, endAltM)
    /\ Len(results) < MaxArrayLen
    /\ results' = Append(results, calculateAtmosphere(alt))
    /\ invocations' = invocations + 1
    /\ alt' = alt + stepM
    /\ UNCHANGED <<page, tables, thrown, op, arg, result, pc, startAltM, endAltM, stepM>>

\* the condition fails: return results
LoopExit ==
    /\ pc = "loop"
    /\ ~loopCondition(alt, endAltM)
    /\ pc' = "done"
    /\ UNCHANGED <<page, tables, thrown, op, arg, result, startAltM, endAltM, stepM, alt, results, invocations>>

\* the loop is still running when the array cannot grow any more
ArrayExhausted ==
    /\ pc = "loop"
    /\ loopCondition(alt, endAltM)
    /\ Len(results) >= MaxArrayLen
    /\ pc' = "exhausted"
    /\ UNCHANGED <<page, tables, thrown, op, arg, result, startAltM, endAltM, stepM, alt, results, invocations>>

Next ==
    \/ \E h \in Altitudes : GetLayer(h)
    \/ \E h \in Altitudes : CalculateTemperature(h)
    \/ \E h \in Altitudes : CalculatePressure(h)
    \/ \E h \in Altitudes : CalculateAtmosphere(h)
    \/ \E v \in ConvertValues, f \in AltitudeUnitIds, t \in AltitudeUnitIds :
           ConvertAltitude(v, f, t)
    \/ \E v \in ConvertValues, f \in PressureUnitIds, t \in PressureUnitIds :
           ConvertPressure(v, f, t)
    \/ ExportToCSV
    \/ \E now \in Timestamps : ExportToJSON(now)
    \/ \E s \in Starts, e \in Ends, st \in Steps : GenerateProfile(s, e, st)
    \/ LoopBody
    \/ LoopExit
    \/ ArrayExhausted

Spec == Init /\ [][Next]_vars

\* A caller assigns to a field of the layer of the result it holds:
\* r.layer.baseTemperature = v.  The fields of AtmosphericLayer are writable
\* and r.layer is the very object getLayer returned, LAYERS[i], so the write
\* lands in the table.
WriteResultLayer(v) ==
    /\ CallerReady
    /\ op = "calculateAtmosphere"
    /\ Len(result) = 1
    /\ Cardinality({i \in DOMAIN LAYERS : LAYERS[i] # LayerTable[i]}) < MaxLayerWrites
    /\ LAYERS' = [LAYERS EXCEPT ![result[1].layer].baseTemperature = v]
    /\ op' = "writeResultLayer"
    /\ UNCHANGED <<page, ISA_CONSTANTS, UNITS, thrown, arg, result, pc, startAltM, endAltM,
                   stepM, alt, results, invocations>>

\* The iterations of generateProfile(s, e, st) run without an order: the
\* sample points s, s + st, ... up to e are known from the arguments, one
\* slot is kept per point, and the body of the loop,
\* calculateAtmosphere(point), is evaluated for the slots in any order.
samplePoints(s, e, st) ==
    IF st > 0 /\ s <= e THEN [k \in 1..((e - s) \div st + 1) |-> s + (k - 1) * st]
    ELSE <<>>

ScatterProfile(s, e, st) ==
    /\ CallerReady
    /\ st > 0
    /\ Len(samplePoints(s, e, st)) <= MaxConcurrentSamples
    /\ startAltM' = s
    /\ endAltM' = e
    /\ stepM' = st
    /\ alt' = s
    /\ results' = [k \in 1..Len(samplePoints(s, e, st)) |-> <<>>]
    /\ invocations' = 0
    /\ pc' = "scatter"
    /\ op' = "generateProfile"
    /\ arg' = 0
    /\ result' = <<>>
    /\ thrown' = "none"
    /\ UNCHANGED <<tables, page>>

\* the body of the loop for the k-th sample point, whichever slots are
\* filled; alt is the point computed last
ComputeSample(k) ==
    /\ pc = "scatter"
    /\ k \in 1..Len(results)
    /\ results[k] = <<>>
    /\ results' = [results EXCEPT
                      ![k] = <<calculateAtmosphere(samplePoints(startAltM, endAltM, stepM)[k])>>]
    /\ invocations' = invocations + 1
    /\ alt' = samplePoints(startAltM, endAltM, stepM)[k]
    /\ UNCHANGED <<page, tables, thrown, op, arg, result, pc, startAltM, endAltM, stepM>>

\* every slot is filled: the profile is the slots in the order of their index
GatherProfile ==
    /\ pc = "scatter"
    /\ \A k \in 1..Len(results) : results[k] # <<>>
    /\ results' = [k \in 1..Len(results) |-> results[k][1]]
    /\ pc' = "done"
    /\ UNCHANGED <<page, tables, thrown, op, arg, result, startAltM, endAltM, stepM, alt, invocations>>

NextConcurrent ==
    \/ \E s \in Starts, e \in Ends, st \in Steps : ScatterProfile(s, e, st)
    \/ \E k \in 1..MaxConcurrentSamples : ComputeSample(k)
    \/ GatherProfile

\* profiles whose samples are computed in an order chosen by a scheduler
ConcurrentSpec == Init /\ [][NextConcurrent]_vars

\* The conversions as functions of numbers.  A call is drawn first: arg is
\* <<value, from, to>>, the value a decimal literal and the two units keys of
\* one table; the actions apply the function to it.
ConversionInit ==
    /\ LAYERS = LayerTable
    /\ ISA_CONSTANTS = IsaConstants
    /\ UNITS = UnitTables
    /\ thrown = "none"
    /\ op = "none"
    /\ arg \in (NumberValues \X (DOMAIN UnitTables.altitude) \X (DOMAIN UnitTables.altitude))
               \cup (NumberValues \X (DOMAIN UnitTables.pressure) \X (DOMAIN UnitTables.pressure))
    /\ result = <<>>
    /\ pc = "idle"
    /\ startAltM = 0
    /\ endAltM = 0
    /\ stepM = 0
    /\ alt = 0
    /\ results = <<>>
    /\ invocations = 0
    /\ InitialPage

\* convertAltitude(value, from, to)
ConvertAltitudeNumber ==
    /\ op = "none"
    /\ arg[2] \in DOMAIN UNITS.altitude
    /\ op' = "convertAltitude"
    /\ result' = <<convertNumber(UNITS.altitude, Number(arg[1]), arg[2], arg[3])>>
    /\ UNCHANGED <<page, tables, thrown, arg, pc, startAltM, endAltM, stepM, alt, results, invocations>>

\* convertPressure(value, from, to)
ConvertPressureNumber ==
    /\ op = "none"
    /\ arg[2] \in DOMAIN UNITS.pressure
    /\ op' = "convertPressure"
    /\ result' = <<convertNumber(UNITS.pressure, Number(arg[1]), arg[2], arg[3])>>
    /\ UNCHANGED <<page, tables, thrown, arg, pc, startAltM, endAltM, stepM, alt, results, invocations>>

\* convertAltitude(convertAltitude(value, from, to), to, from)
RoundTripAltitude ==
    /\ op = "none"
    /\ arg[2] \in DOMAIN UNITS.altitude
    /\ op' = "roundTripAltitude"
    /\ result' = <<convertNumber(UNITS.altitude,
                                convertNumber(UNITS.altitude, Number(arg[1]), arg[2], arg[3]),
                                arg[3], arg[2])>>
    /\ UNCHANGED <<page, tables, thrown, arg, pc, startAltM, endAltM, stepM, alt, results, invocations>>

NextConversion ==
    \/ ConvertAltitudeNumber
    \/ ConvertPressureNumber
    \/ RoundTripAltitude

ConversionSpec == ConversionInit /\ [][NextConversion]_vars

\* formatNumber and exportToCSV as functions of their arguments.  A call is
\* drawn first: formatNumber of a value, or exportToCSV of one or two results
\* a caller holds, computed at whole metres or between them.
FormatInit ==
    /\ LAYERS = LayerTable
    /\ ISA_CONSTANTS = IsaConstants
    /\ UNITS = UnitTables
    /\ thrown = "none"
    /\ op = "none"
    /\ \/ arg \in [fn : {"formatNumber"}, value : FormatValues, decimals : FormatDecimals]
       \/ \E h \in Altitudes :
              arg = [fn |-> "exportToCSV", results |-> <<calculateAtmosphere(h)>>]
       \/ \E n \in GridAltitudes :
              arg = [fn |-> "exportToCSV", results |-> <<calculateAtmosphereOnGrid(n)>>]
       \/ \E h \in Altitudes : \E n \in GridAltitudes :
              arg = [fn |-> "exportToCSV",
                     results |-> <<calculateAtmosphere(h), calculateAtmosphereOnGrid(n)>>]
    /\ result = <<>>
    /\ pc = "idle"
    /\ startAltM = 0
    /\ endAltM = 0
    /\ stepM = 0
    /\ alt = 0
    /\ results = <<>>
    /\ invocations = 0
    /\ InitialPage

\* formatNumber(value, decimals)
FormatNumber ==
    /\ op = "none"
    /\ arg.fn = "formatNumber"
    /\ op' = "formatNumber"
    /\ result' = <<formatNumber(arg.value, arg.decimals)>>
    /\ UNCHANGED <<page, tables, thrown, arg, pc, startAltM, endAltM, stepM, alt, results, invocations>>

\* exportToCSV(results) for the results the caller holds
ExportHeldToCSV ==
    /\ op = "none"
    /\ arg.fn = "exportToCSV"
    /\ op' = "exportToCSV"
    /\ result' = <<exportToCSV(arg.results)>>
    /\ UNCHANGED <<page, tables, thrown, arg, pc, startAltM, endAltM, stepM, alt, results, invocations>>

NextFormat ==
    \/ FormatNumber
    \/ ExportHeldToCSV

FormatSpec == FormatInit /\ [][NextFormat]_vars

\* The Calculator page after its first render: the state holds the initial
\* values and the result memo computed from them.
CalculatorInit ==
    /\ LAYERS = LayerTable
    /\ ISA_CONSTANTS = IsaConstants
    /\ UNITS = UnitTables
    /\ thrown = "none"
    /\ op = "render"
    /\ arg = 0
    /\ InitialPage
    /\ result = resultFor(altitudeM(altitudeInput, altitudeUnit))
    /\ pc = "idle"
    /\ startAltM = 0
    /\ endAltM = 0
    /\ stepM = 0
    /\ alt = 0
    /\ results = <<>>
    /\ invocations = 0

\* the user edits the altitude field: setAltitudeInput(e.target.value) and
\* the render that follows, which recomputes the result memo.  The texts
\* typed give an altitude that is rejected or a whole number of metres.
SetAltitudeInput(altitudeText) ==
    /\ \E a \in {altitudeM(altitudeText, altitudeUnit)} :
           /\ a.nan \/ ~a.inRange \/ a.whole
           /\ result' = resultFor(a)
    /\ altitudeInput' = altitudeText
    /\ op' = "setAltitudeInput"
    /\ arg' = altitudeText
    /\ emitted' = <<>>
    /\ UNCHANGED <<tables, thrown, pc, startAltM, endAltM, stepM, alt, results, invocations,
                   altitudeUnit, copied>>

\* the user selects a unit: setAltitudeUnit(v) and the render that follows
SetAltitudeUnit(unit) ==
    /\ \E a \in {altitudeM(altitudeInput, unit)} :
           /\ a.nan \/ ~a.inRange \/ a.whole
           /\ result' = resultFor(a)
    /\ altitudeUnit' = unit
    /\ op' = "setAltitudeUnit"
    /\ arg' = unit
    /\ emitted' = <<>>
    /\ UNCHANGED <<tables, thrown, pc, startAltM, endAltM, stepM, alt, results, invocations,
                   altitudeInput, copied>>

\* handleCopyResult
HandleCopyResult ==
    /\ op' = "handleCopyResult"
    /\ arg' = 0
    /\ IF result = <<>>
       THEN /\ emitted' = <<>>
            /\ copied' = copied
       ELSE /\ emitted' = <<[effect |-> "clipboard", name |-> <<>>,
                             data |-> copyText(result[1])],
                            toast("Copied to clipboard")>>
            /\ copied' = TRUE
    /\ UNCHANGED <<tables, thrown, result, pc, startAltM, endAltM, stepM, alt, results,
                   invocations, altitudeInput, altitudeUnit>>

\* the callback handleCopyResult left with setTimeout: setCopied(false)
CopiedTimeout ==
    /\ copied
    /\ copied' = FALSE
    /\ op' = "copiedTimeout"
    /\ arg' = 0
    /\ emitted' = <<>>
    /\ UNCHANGED <<tables, thrown, result, pc, startAltM, endAltM, stepM, alt, results,
                   invocations, altitudeInput, altitudeUnit>>

\* handleExport(format), called at instant now
HandleExport(format, now) ==
    /\ op' = "handleExport"
    /\ arg' = format
    /\ IF result = <<>>
       THEN emitted' = <<>>
       ELSE emitted' = <<[effect |-> "download",
                          name   |-> <<"isa-result-", result[1].altitude, "m.", format>>,
                          data   |-> IF format = "csv"
                                     THEN exportToCSV(result)
                                     ELSE exportToJSON(result, now)],
                         toast(IF format = "csv" THEN "Downloaded CSV" ELSE "Downloaded JSON")>>
    /\ UNCHANGED <<tables, thrown, result, pc, startAltM, endAltM, stepM, alt, results,
                   invocations, altitudeInput, altitudeUnit, copied>>

NextCalculator ==
    \/ \E altitudeText \in AltitudeTexts : SetAltitudeInput(altitudeText)
    \/ \E unit \in DOMAIN UnitTables.altitude : SetAltitudeUnit(unit)
    \/ HandleCopyResult
    \/ CopiedTimeout
    \/ \E format \in ExportFormats, now \in Timestamps : HandleExport(format, now)

CalculatorSpec == CalculatorInit /\ [][NextCalculator]_vars

NextWithCallerWrites ==
    \/ Next
    \/ \E v \in WrittenTemperatures : WriteResultLayer(v)

\* the library together with a caller that writes to the results it is given
CallerWritesSpec == Init /\ [][NextWithCallerWrites]_vars

---------------------------------------------------------------------------
(* Properties *)

\* the number of samples of the range [s, e] at step st > 0, s <= e
SampleCount(s, e, st) == (e - s) \div st + 1

\* the k-th sample point (k from 1) of the current generateProfile call
SamplePoint(k) == startAltM + (k - 1) * stepM

\* C1: calculateAtmosphere saturates out-of-range altitudes: below 0 the
\* result is that of altitude 0 in every field, above 86000 that of altitude
\* 86000 in every field, and a result is returned (the input is not rejected).
C1_ClampSaturates ==
    op = "calculateAtmosphere" =>
        /\ Len(result) = 1
        /\ arg < 0 => result[1] = calculateAtmosphere(0)
        /\ arg > 86000 => result[1] = calculateAtmosphere(86000)

C1_Witness ==
    /\ op = "calculateAtmosphere"
    /\ arg = 200000
    /\ result[1].altitude = 86000
    /\ result[1].layerName = "Mesopause"

\* C2: temperature is continuous at every layer boundary: calculateTemperature
\* at the base altitude of each layer after the first gives what the previous
\* layer's formula Tb + L * (h - hb) gives at that altitude.
C2_TemperatureContinuous ==
    \A i \in 2..Len(LAYERS) :
        (op = "calculateTemperature" /\ arg = LAYERS[i].baseAltitude) =>
            result[1] = LAYERS[i-1].baseTemperature
                        + LAYERS[i-1].lapseRate
                          * (LAYERS[i].baseAltitude - LAYERS[i-1].baseAltitude)

C4_InvalidStepRejected ==
    (op = "generateProfile" /\ stepM <= 0) => pc = "InvalidStep"

\* the number of distinct sample points start + k * step (k >= 0) that lie in
\* [start, end]: what a call can be asked to sample
RequestedSamples(s, e, st) ==
    IF s > e THEN 0
    ELSE IF st > 0 THEN SampleCount(s, e, st)
    ELSE 1

\* C5: every call of generateProfile terminates, whatever start, end and
\* step are: the loop performs at most as many iterations as the requested
\* sample count and never runs on until the array is exhausted.
C5_ProfileTerminates ==
    op = "generateProfile" =>
        /\ invocations <= RequestedSamples(startAltM, endAltM, stepM)
        /\ pc # "exhausted"

\* C6: generateProfile with start > end returns the empty sequence without
\* an error and without a single calculateAtmosphere call.
C6_EmptyWhenStartAboveEnd ==
    (op = "generateProfile" /\ startAltM > endAltM) =>
        /\ results = <<>>
        /\ invocations = 0
        /\ pc \in {"loop", "done"}

C6_Witness ==
    /\ pc = "done"
    /\ startAltM = 10000 /\ endAltM = 0 /\ stepM = 1000
    /\ results = <<>>

\* C7: generateProfile does not clamp start or end: the number of samples
\* comes from the unclamped start, end and step, every sample whose unclamped
\* point is >= 86000 is calculateAtmosphere(86000), every sample whose
\* unclamped point is <= 0 is calculateAtmosphere(0), and the call does not
\* fail.
C7_NoClampInGenerator ==
    op = "generateProfile" =>
        /\ \A k \in 1..Len(results) :
               /\ SamplePoint(k) >= 86000 => results[k] = calculateAtmosphere(86000)
               /\ SamplePoint(k) <= 0 => results[k] = calculateAtmosphere(0)
        /\ (pc = "done" /\ stepM > 0 /\ startAltM <= endAltM) =>
               Len(results) = SampleCount(startAltM, endAltM, stepM)
        /\ stepM > 0 => pc # "exhausted"

C7_Witness ==
    /\ pc = "done"
    /\ startAltM = 80000 /\ endAltM = 92000 /\ stepM = 1000
    /\ Len(results) = 13
    /\ results[7] = results[13]
    /\ results[13].altitude = 86000

\* C8: getLayer(h) returns the layer with the greatest baseAltitude <= h for
\* h >= 0 and the first layer for h < 0, and leaves LAYERS as it was.
C8_GetLayerGreatestBase ==
    /\ [](op = "getLayer" =>
            IF arg >= 0
            THEN /\ LAYERS[result[1]].baseAltitude <= arg
                 /\ \A j \in 1..Len(LAYERS) :
                        LAYERS[j].baseAltitude <= arg =>
                            LAYERS[j].baseAltitude <= LAYERS[result[1]].baseAltitude
            ELSE result[1] = 1)
    /\ [][op' = "getLayer" => LAYERS' = LAYERS]_vars

C8_Witness ==
    /\ op = "getLayer"
    /\ arg = 47000
    /\ LAYERS[result[1]].name = "Stratopause"

\* C9: LAYERS has exactly 8 entries with strictly increasing base altitudes
\* 0, 11000, 20000, 32000, 47000, 51000, 71000, 86000, and the layers with
\* lapse rate exactly 0 are Tropopause, Stratopause and Mesopause.
C9_LayerTableShape ==
    /\ Len(LAYERS) = 8
    /\ LAYERS[1].baseAltitude = 0
    /\ \A i \in 1..(Len(LAYERS) - 1) : LAYERS[i].baseAltitude < LAYERS[i+1].baseAltitude
    /\ [i \in 1..Len(LAYERS) |-> LAYERS[i].baseAltitude]
           = <<0, 11000, 20000, 32000, 47000, 51000, 71000, 86000>>
    /\ {LAYERS[i].name : i \in {j \in 1..Len(LAYERS) : LAYERS[j].lapseRate = 0}}
           = {"Tropopause", "Stratopause", "Mesopause"}

C9_Witness ==
    /\ op = "calculatePressure"
    /\ arg = 11001
    /\ result[1].form = "exp"

\* C10: for h in [0, 86000] the density of calculateAtmosphere(h) is its own
\* pressure divided by R times its own temperature.
C10_DensityFromOwnPT ==
    (op = "calculateAtmosphere" /\ arg >= 0 /\ arg <= 86000) =>
        result[1].density = [form |-> "div", pressure |-> result[1].pressure,
                             R |-> ISA_CONSTANTS.R,
                             temperature |-> result[1].temperature]

C10_Witness ==
    /\ op = "calculateAtmosphere"
    /\ arg = 5000
    /\ result[1].density.temperature = 2556500
    /\ result[1].density.pressure.form = "pow"

\* the fields of an AtmosphericResult
ResultFields ==
    {"altitude", "temperature", "temperatureCelsius", "pressure", "density",
     "speedOfSound", "dynamicViscosity", "kinematicViscosity", "layer", "layerName"}

\* C11: calculateAtmosphere is total: for every altitude, negative, in range
\* or far above 86000, it throws nothing and returns a result with every
\* field populated.
C11_Total ==
    op = "calculateAtmosphere" =>
        /\ thrown = "none"
        /\ Len(result) = 1
        /\ DOMAIN result[1] = ResultFields
        /\ result[1].altitude \in Int
        /\ result[1].temperature \in Int
        /\ result[1].temperatureCelsius \in Int
        /\ result[1].pressure.form \in {"exp", "pow"}
        /\ result[1].density.form = "div"
        /\ result[1].speedOfSound.form = "sqrt"
        /\ result[1].dynamicViscosity.form = "sutherland"
        /\ result[1].kinematicViscosity.form = "ratio"
        /\ result[1].layer \in DOMAIN LAYERS
        /\ result[1].layerName = LAYERS[result[1].layer].name

C11_Witness ==
    /\ op = "calculateAtmosphere"
    /\ arg = -500
    /\ thrown = "none"
    /\ result[1].layerName = "Troposphere"

\* C12: convertAltitude and convertPressure called with a unit identifier
\* that is not a key of their table fail with an UnknownUnit error: they
\* return no number (nor NaN) and throw no other kind of error.
C12_UnknownUnitRejected ==
    /\ (op = "convertAltitude"
          /\ (arg[2] \notin DOMAIN UNITS.altitude \/ arg[3] \notin DOMAIN UNITS.altitude))
       => (thrown = "UnknownUnit" /\ result = <<>>)
    /\ (op = "convertPressure"
          /\ (arg[2] \notin DOMAIN UNITS.pressure \/ arg[3] \notin DOMAIN UNITS.pressure))
       => (thrown = "UnknownUnit" /\ result = <<>>)

\* a >= b for two decimals <<mantissa, decimal exponent>>
DecGeq(a, b) ==
    LET e == Min(a[2], b[2])
    IN  a[1] * Pow10(a[2] - e) >= b[1] * Pow10(b[2] - e)

\* r to the power n in thousandths, rounded up at every step
RECURSIVE PowUp(_, _)
PowUp(r, n) == IF n = 0 THEN 1000 ELSE (PowUp(r, n - 1) * r) \div 1000 + 1

\* An upper bound, in thousandths, of P / Pb when the formula of layer i - 1
\* is evaluated at the base altitude of layer i.  The pressure of a layer
\* never exceeds its base pressure.  In a layer with L < 0 it is
\* Pb * (T / Tb)^(g0 / (|L| * R)) with T / Tb < 1, which is at most
\* (T / Tb rounded up)^n for every whole n <= g0 / (|L| * R); n is taken
\* with g0 >= 9.80 and R <= 287.06.
UpperPressureFactor(i) ==
    LET prev == LAYERS[i-1]
        T    == prev.baseTemperature
                + prev.lapseRate * (LAYERS[i].baseAltitude - prev.baseAltitude)
        rUp  == ((T \div 100 + 1) * 1000) \div (prev.baseTemperature \div 100) + 1
        n    == 9800000 \div ((0 - prev.lapseRate) * 28706)
    IN  IF prev.lapseRate < 0 THEN PowUp(rUp, n) ELSE 1000

\* an upper bound of the pressure the formula of layer i - 1 gives at the base
\* altitude of layer i, as a decimal
UpperPressureBelow(i) ==
    <<(LAYERS[i-1].basePressure[1] * UpperPressureFactor(i)) \div 1000 + 1,
      LAYERS[i-1].basePressure[2]>>

\* C13: pressure is continuous at every layer boundary to within 1e-6
\* relative: the previous layer's formula at the base altitude of a layer
\* differs from the pressure calculatePressure returns there (the stored
\* basePressure) by at most 1e-6 of it.  The mantissas of the table are below
\* 1e6, so the previous layer's pressure, and with it its upper bound, must
\* reach the stored mantissa less one.
C13_PressureContinuous ==
    \A i \in 2..Len(LAYERS) :
        (op = "calculatePressure" /\ arg = LAYERS[i].baseAltitude) =>
            /\ result[1].Pb = LAYERS[i].basePressure
            /\ result[1].Pb[1] <= 1000000
            /\ DecGeq(UpperPressureBelow(i), <<result[1].Pb[1] - 1, result[1].Pb[2]>>)

\* the value of a pressure expression evaluated at the base of its layer:
\* exp(0) = 1 and pow(1, x) = 1, so the value is Pb itself
AtLayerBase(p) ==
    \/ p.form = "exp" /\ p.deltaH = 0
    \/ p.form = "pow" /\ p.T = p.Tb

\* whole-number bounds of R * T (R in 1e-5, T in 1e-4 K): R and T are cut to
\* two decimals, down for the lower and up for the upper bound
RTLower(R, T) == ((R \div 1000) * (T \div 100)) \div 10000
RTUpper(R, T) == ((R \div 1000 + 1) * (T \div 100 + 1)) \div 10000 + 1

\* lo <= P / (R * T) <= hi, for P in whole Pa and lo, hi in 1e-4 kg/m3
DensityWithin(d, lo, hi) ==
    /\ d.form = "div"
    /\ AtLayerBase(d.pressure)
    /\ d.pressure.Pb[2] = 0
    /\ d.pressure.Pb[1] * 10000 >= lo * RTUpper(d.R, d.temperature)
    /\ d.pressure.Pb[1] * 10000 <= hi * RTLower(d.R, d.temperature)

\* lo <= sqrt(gamma * R * T) <= hi, for lo, hi in 1e-2 m/s and gamma in tenths
SpeedOfSoundWithin(a, lo, hi) ==
    /\ a.form = "sqrt"
    /\ lo * lo <= a.gamma * RTLower(a.R, a.temperature) * 1000
    /\ a.gamma * RTUpper(a.R, a.temperature) * 1000 <= hi * hi

\* C14: calculateAtmosphere reproduces the reference values, to the digits
\* quoted: at 0 m 288.15 K, 101325 Pa, 1.225 kg/m3 and 340.3 m/s; at 11000 m
\* 216.65 K and 22632 Pa; at 86000 m 186.87 K.
C14_ReferenceValues ==
    op = "calculateAtmosphere" =>
        /\ arg = 0 =>
               /\ result[1].temperature = 2881500
               /\ AtLayerBase(result[1].pressure)
               /\ result[1].pressure.Pb = <<101325, 0>>
               /\ DensityWithin(result[1].density, 12245, 12255)
               /\ SpeedOfSoundWithin(result[1].speedOfSound, 34025, 34035)
        /\ arg = 11000 =>
               /\ result[1].temperature = 2166500
               /\ AtLayerBase(result[1].pressure)
               /\ DecGeq(result[1].pressure.Pb, <<226315, -1>>)
               /\ DecGeq(<<226325, -1>>, result[1].pressure.Pb)
        /\ arg = 86000 => result[1].temperature = 1868700

C14_Witness ==
    /\ op = "calculateAtmosphere"
    /\ arg = 0
    /\ result[1].altitude = 0
    /\ result[1].speedOfSound.temperature = 2881500

\* C15 as claimed: in every profile of generateProfile with step > 0 the
\* altitude field of each sample is strictly greater than that of the sample
\* before it.
C15_StrictlyAscending ==
    (op = "generateProfile" /\ stepM > 0) =>
        \A k \in 2..Len(results) : results[k].altitude > results[k-1].altitude

\* C15 amended: the altitude field of each sample is strictly greater than
\* that of the sample before it, except where both sample points are <= 0 or
\* both are >= 86000: there the two clamped altitudes are equal.
C15_AscendingUpToClamp ==
    (op = "generateProfile" /\ stepM > 0) =>
        \A k \in 2..Len(results) :
            IF \/ SamplePoint(k) <= 0
               \/ SamplePoint(k-1) >= 86000
            THEN results[k].altitude = results[k-1].altitude
            ELSE results[k].altitude > results[k-1].altitude

C15_Witness ==
    /\ pc = "done"
    /\ startAltM = 80000 /\ endAltM = 92000 /\ stepM = 1000
    /\ results[6].altitude < results[7].altitude
    /\ results[7].altitude = 86000
    /\ results[8].altitude = 86000

\* C16: calculatePressure uses the isothermal form Pb * exp(...) exactly when
\* the lapse rate of the resolved layer equals 0 and the gradient form
\* Pb * pow(T / Tb, -g0 / (L * R)) for every other layer, so the gradient
\* form never divides by L = 0.
C16_BranchOnExactZero ==
    op = "calculatePressure" =>
        LET layer == LAYERS[getLayer(arg)]
        IN  /\ result[1].form \in {"exp", "pow"}
            /\ result[1].form = "exp" <=> layer.lapseRate = 0
            /\ result[1].form = "pow" =>
                   (result[1].L = layer.lapseRate /\ result[1].L # 0)

C16_Witness ==
    /\ op = "calculatePressure"
    /\ arg = 20000
    /\ result[1].form = "pow"
    /\ result[1].L = 10

\* C17: a result does not expose its layer as a mutable reference shared with
\* the layer table: a caller's write to the layer held by a result leaves
\* LAYERS as it was.
C17_LayerNotShared == [][op' = "writeResultLayer" => LAYERS' = LAYERS]_vars

\* a step that calls again the function called last, with the same arguments
SameCallAgain ==
    /\ op' = op
    /\ arg' = arg
    /\ pc' = pc
    /\ startAltM' = startAltM /\ endAltM' = endAltM /\ stepM' = stepM
    /\ results' = results

\* C18 as claimed: no operation modifies LAYERS, ISA_CONSTANTS or UNITS, and
\* the result of each call depends only on its arguments and these tables:
\* the same call made again returns the same result.
C18_PureOperations ==
    /\ [](pc = "done" => results = generateProfile(startAltM, endAltM, stepM))
    /\ [][/\ tables' = tables
          /\ SameCallAgain => (result' = result /\ thrown' = thrown)]_vars

\* C18 amended: no operation modifies LAYERS, ISA_CONSTANTS or UNITS, and the
\* result of each call depends only on its arguments and these tables, except
\* that the document of exportToJSON also carries the time of the call in
\* metadata.generatedAt.
C18_PureUpToTimestamp ==
    /\ [](pc = "done" => results = generateProfile(startAltM, endAltM, stepM))
    /\ [][/\ tables' = tables
          /\ SameCallAgain =>
                 /\ thrown' = thrown
                 /\ IF op = "exportToJSON"
                    THEN /\ result'[1].data = result[1].data
                         /\ result'[1].metadata.model = result[1].metadata.model
                         /\ result'[1].metadata.constants = result[1].metadata.constants
                    ELSE result' = result]_vars

C18_Witness ==
    /\ op = "exportToJSON"
    /\ startAltM = 0 /\ endAltM = 10000 /\ stepM = 1000
    /\ result[1].metadata.generatedAt = 2
    /\ result[1].metadata.constants = IsaConstants
    /\ Len(result[1].data) = 11
    /\ tables = <<LayerTable, IsaConstants, UnitTables>>

C20_TemperaturePositive ==
    /\ (op = "calculateTemperature" /\ arg >= 0 /\ arg <= 86000) => result[1] > 0
    /\ op = "calculateAtmosphere" =>
           /\ result[1].temperature > 0
           /\ result[1].speedOfSound.temperature = result[1].temperature
           /\ result[1].speedOfSound.gamma > 0
           /\ result[1].speedOfSound.R > 0

C20_Witness ==
    /\ op = "calculateTemperature"
    /\ arg = 85999
    /\ result[1] = 1846520

\* |a - b| in units of 2^e, e at most the exponents of a and b
DistanceAt(a, b, e) ==
    CHOOSE r \in {IF a.sign # b.sign THEN NatAdd(A, B)
                  ELSE IF NatLess(A, B) THEN NatSub(B, A) ELSE NatSub(A, B)
                  : A \in {ShiftBits(a.mant, a.exp - e)},
                    B \in {ShiftBits(b.mant, b.exp - e)}} : TRUE

\* r is x to within k units in the last place of x (2^x.exp); 0 only for 0
WithinUlps(r, x, k) ==
    \E a \in {r}, b \in {x} :
        IF b.mant = <<>> THEN a = b
        ELSE ~NatLess(ShiftBits(Limbs(k), b.exp - Min(a.exp, b.exp)),
                      DistanceAt(a, b, Min(a.exp, b.exp)))

\* C21: the altitude round trip returns its argument within floating-point
\* precision: for every value x and every pair of altitude units,
\* convertAltitude(convertAltitude(x, from, to), to, from) is x to within 4
\* units in the last place (each of the 4 operations rounds once), and 0 for 0.
C21_AltitudeRoundTrip ==
    op = "roundTripAltitude" => WithinUlps(result[1], Number(arg[1]), 4)

\* the round trip of 3 m through feet is not 3: it is one unit off
C21_Witness ==
    /\ op = "roundTripAltitude"
    /\ arg = <<<<3, 0>>, "m", "ft">>
    /\ result[1] # Number(<<3, 0>>)
    /\ WithinUlps(result[1], Number(<<3, 0>>), 1)

\* the factors C22 quotes
QuotedFactors ==
    [m |-> <<1, 0>>, km |-> <<1000, 0>>, ft |-> <<3048, -4>>,
     Pa |-> <<1, 0>>, hPa |-> <<100, 0>>, mbar |-> <<100, 0>>,
     atm |-> <<101325, 0>>, psi |-> <<689476, -2>>]

\* C22 as claimed: convertAltitude and convertPressure return
\* value * factor(from) / factor(to) with the factors m = 1, km = 1000,
\* ft = 0.3048, Pa = 1, hPa = 100, mbar = 100, atm = 101325, psi = 6894.76,
\* and a conversion between identical units, or between hPa and mbar, returns
\* the value unchanged.
C22_ConversionFormula ==
    op \in {"convertAltitude", "convertPressure"} =>
        /\ result[1] = Over(Times(Number(arg[1]), Number(QuotedFactors[arg[2]])),
                            Number(QuotedFactors[arg[3]]))
        /\ QuotedFactors[arg[2]] = QuotedFactors[arg[3]] => result[1] = Number(arg[1])

\* C22 amended: the same formula and factors; a conversion between identical
\* units, or between hPa and mbar, returns the value unchanged when the
\* factor is 1 and to within 2 units in the last place otherwise (the product
\* and the quotient are each rounded).
C22_FormulaUpToRounding ==
    op \in {"convertAltitude", "convertPressure"} =>
        /\ result[1] = Over(Times(Number(arg[1]), Number(QuotedFactors[arg[2]])),
                            Number(QuotedFactors[arg[3]]))
        /\ QuotedFactors[arg[2]] = QuotedFactors[arg[3]] =>
               /\ WithinUlps(result[1], Number(arg[1]), 2)
               /\ QuotedFactors[arg[2]] = <<1, 0>> => result[1] = Number(arg[1])

\* 3 psi converted to psi is not 3
C22_Witness ==
    /\ op = "convertPressure"
    /\ arg = <<<<3, 0>>, "psi", "psi">>
    /\ result[1] # Number(<<3, 0>>)
    /\ WithinUlps(result[1], Number(<<3, 0>>), 1)

\* C23: over the valid range the lowest temperature is the one at 86 km,
\* 186.87 K: for every h in [0, 86000], calculateTemperature(h) is at least
\* calculateTemperature(86000).
C23_LowestAtMesopause ==
    (op = "calculateTemperature" /\ arg >= 0 /\ arg <= 86000) =>
        /\ calculateTemperature(86000) = 1868700
        /\ result[1] >= calculateTemperature(86000)

\* C24: at the base altitude of every layer calculateAtmosphere resolves that
\* very layer and returns exactly its baseTemperature and its basePressure:
\* the offset h - hb is 0, so the temperature is Tb + L * 0 and the pressure
\* is Pb * exp(0) or Pb * pow(1, x).
C24_ExactAtLayerBase ==
    \A i \in 1..Len(LAYERS) :
        (op = "calculateAtmosphere" /\ arg = LAYERS[i].baseAltitude) =>
            /\ result[1].layer = i
            /\ result[1].temperature = LAYERS[i].baseTemperature
            /\ AtLayerBase(result[1].pressure)
            /\ result[1].pressure.Pb = LAYERS[i].basePressure
            /\ result[1].pressure.form = "exp" <=> LAYERS[i].lapseRate = 0

C24_Witness ==
    /\ op = "calculateAtmosphere"
    /\ arg = 71000
    /\ result[1].layerName = "Mesosphere II"
    /\ result[1].pressure.form = "pow"
    /\ result[1].pressure.T = result[1].pressure.Tb
    /\ result[1].pressure.Pb = <<395642, -5>>

\* C25: every result of calculateAtmosphere has 0 <= altitude <= 86000,
\* altitude equal to the input when the input is in [0, 86000], layer equal
\* to getLayer(altitude), layerName equal to the name of that layer, and
\* layer.baseAltitude <= altitude.
C25_ResultInvariants ==
    op = "calculateAtmosphere" =>
        /\ result[1].altitude >= 0
        /\ result[1].altitude <= 86000
        /\ (arg >= 0 /\ arg <= 86000) => result[1].altitude = arg
        /\ result[1].layer = getLayer(result[1].altitude)
        /\ result[1].layerName = LAYERS[result[1].layer].name
        /\ LAYERS[result[1].layer].baseAltitude <= result[1].altitude

C25_Witness ==
    /\ op = "calculateAtmosphere"
    /\ arg = 46999
    /\ result[1].altitude = 46999
    /\ result[1].layerName = "Stratosphere II"
    /\ LAYERS[result[1].layer].baseAltitude = 32000

\* the altitudes at which C26 says the layer changes below 86000 m
LayerChanges == <<11000, 20000, 32000, 47000, 51000, 71000>>

\* C26: calculateAtmosphere(h).layerName is Mesopause exactly when
\* h >= 86000; every h in [0, 86000) resolves to one of the first 7 layers,
\* the layer changing exactly at 11000, 20000, 32000, 47000, 51000, 71000.
C26_MesopauseOnlyAtTop ==
    op = "calculateAtmosphere" =>
        /\ result[1].layerName = "Mesopause" <=> arg >= 86000
        /\ (arg >= 0 /\ arg < 86000) =>
               /\ result[1].layer \in 1..7
               /\ result[1].layer
                      = 1 + Cardinality({k \in 1..Len(LayerChanges) : LayerChanges[k] <= arg})

C26_Witness ==
    /\ op = "calculateAtmosphere"
    /\ arg = 85999
    /\ result[1].layer = 7
    /\ result[1].layerName = "Mesosphere II"

\* C27: in every result of calculateAtmosphere the kinematic viscosity is the
\* result's own dynamic viscosity divided by its own density, and
\* temperatureCelsius is its own temperature minus 273.15.
C27_DerivedFields ==
    op = "calculateAtmosphere" =>
        /\ result[1].kinematicViscosity
               = [form |-> "ratio", dynamicViscosity |-> result[1].dynamicViscosity,
                  density |-> result[1].density]
        /\ result[1].temperatureCelsius = result[1].temperature - 2731500

C27_Witness ==
    /\ op = "calculateAtmosphere"
    /\ arg = 11000
    /\ result[1].temperatureCelsius = -565000
    /\ result[1].kinematicViscosity.density.pressure.Pb = <<226321, -1>>
    /\ result[1].kinematicViscosity.dynamicViscosity.temperature = 2166500

\* the values of the fields of a result in the order of the columns
ColumnValues(r) ==
    <<r.altitude, r.temperature, r.temperatureCelsius, r.pressure, r.density,
      r.speedOfSound, r.dynamicViscosity, r.kinematicViscosity, r.layerName>>

\* C28: exportToCSV gives Len(results) + 1 lines: the nine-column header
\* row, then one nine-field row per result in the order of the input (the
\* header alone for an empty input); exportToJSON gives a data array with
\* one record per result in the same order.
C28_ExportShape ==
    /\ op = "exportToCSV" =>
           /\ Len(result[1]) = Len(results) + 1
           /\ result[1][1] = CSVHeaders
           /\ Len(result[1][1]) = 9
           /\ \A k \in 1..Len(results) :
                  /\ Len(result[1][k + 1]) = 9
                  /\ [j \in 1..9 |-> result[1][k + 1][j].value] = ColumnValues(results[k])
    /\ op = "exportToJSON" =>
           /\ Len(result[1].data) = Len(results)
           /\ \A k \in 1..Len(results) :
                  /\ result[1].data[k].altitude_m = results[k].altitude
                  /\ result[1].data[k].temperature_K = results[k].temperature
                  /\ result[1].data[k].pressure_Pa = results[k].pressure
                  /\ result[1].data[k].layer = results[k].layerName

C28_Witness ==
    /\ op = "exportToCSV"
    /\ startAltM = 0 /\ endAltM = 10000 /\ stepM = 3000
    /\ Len(result[1]) = 5
    /\ result[1][2][1].value = 0
    /\ result[1][5][1].value = 9000

\* C29: in the text export every field printed in fixed 4-decimal notation
\* switches to scientific notation when its magnitude is < 0.001 or >= 1e6,
\* by the convention of formatNumber, which returns exponential notation
\* exactly when |value| < 0.001 or |value| >= 1e6 and fixed notation
\* otherwise.  The fields whose magnitude the model knows are the two
\* temperatures, whole numbers of 1e-4 K.
C29_ScientificSwitch ==
    /\ op = "formatNumber" =>
           /\ result[1].fmt \in {"toExponential", "toFixed"}
           /\ result[1].fmt = "toExponential"
                  <=> (~MagnitudeAtLeast(arg.value, -3) \/ MagnitudeAtLeast(arg.value, 6))
    /\ op = "exportToCSV" =>
           \A k \in 2..Len(result[1]) : \A j \in {2, 3} :
               (result[1][k][j].value > -10 /\ result[1][k][j].value < 10)
                   => result[1][k][j].fmt = "toExponential"

\* C30: the Calculator page holds a result exactly when the text of the
\* altitude field parses to a number whose altitude converted to metres lies
\* in [0, 86000]; the altitude of a result is the converted input, so no
\* result shown is a clamped value; and while the result is null,
\* handleCopyResult and handleExport copy and export nothing and leave the
\* page as it is.
C30_ResultIffInRange ==
    /\ [](\E v \in {parseFloat(altitudeInput)} :
             IF v.nan THEN result = <<>>
             ELSE \E m \in {convertNumber(UnitTables.altitude, v.value, altitudeUnit, "m")} :
                      /\ result # <<>>
                             <=> (~NumberLess(m, Number(<<MinAlt, 0>>))
                                  /\ ~NumberLess(Number(<<MaxAlt, 0>>), m))
                      /\ result # <<>> => Number(<<result[1].altitude, 0>>) = m)
    /\ [][(result = <<>> /\ op' \in {"handleCopyResult", "handleExport"})
              => (emitted' = <<>> /\ UNCHANGED <<result, copied, altitudeInput, altitudeUnit>>)]_vars

\* 86.001 km is entered, the result is null and the export button's handler
\* has returned without a download
C30_Witness ==
    /\ altitudeInput = <<"8", "6", ".", "0", "0", "1">>
    /\ altitudeUnit = "km"
    /\ op = "handleExport"
    /\ result = <<>>
    /\ emitted = <<>>

=============================================================================
